---- MODULE Spec2Model ----
(***************************************************************************)
(* Model of news_articles/convert_md_to_html.py: a batch script that reads *)
(* fifteen markdown articles, derives a headline, converts the text to     *)
(* HTML, attaches image metadata and writes one JSON file per article plus *)
(* an aggregate all_articles.json.                                         *)
(*                                                                         *)
(* Text is a sequence of one-character strings.  A file name is a sequence *)
(* of tokens cut at every occurrence of ".md" (<<"june-fuel-prices",       *)
(* ".md">>), so that str.replace('.md', '.json') can be computed.          *)
(***************************************************************************)
EXTENDS Integers, Sequences, FiniteSets, TLC

\* ------------------------------------------------------------- bounds
\* Longest source text enumerated for the headline extraction.
MaxLen == 4
\* Number of consecutive executions of the script.
MaxRuns == 2
\* Last day (of June 2025) the clock can show.
MaxDay == 2

\* ------------------------------------------------- static tables (l.18-143)
\* The dict article_files in insertion order (the order .items() iterates).
article_files ==
  << [article_filename |-> <<"dubai-four-day-workweek", ".md">>, category |-> "News", image |-> "dubai-four-day-workweek.jpg"],
     [article_filename |-> <<"four-day-week-explained", ".md">>, category |-> "News", image |-> "four-day-week-explained.png"],
     [article_filename |-> <<"june-dubai-changes", ".md">>, category |-> "News", image |-> "june-dubai-changes.jpg"],
     [article_filename |-> <<"islamic-new-year-weekend", ".md">>, category |-> "News", image |-> "islamic-new-year-weekend.jpg"],
     [article_filename |-> <<"summer-solstice-guide", ".md">>, category |-> "News", image |-> "summer-solstice-guide.jpg"],
     [article_filename |-> <<"june-fuel-prices", ".md">>, category |-> "News", image |-> "june-fuel-prices.jpg"],
     [article_filename |-> <<"islamic-new-year-holiday", ".md">>, category |-> "News", image |-> "islamic-new-year-holiday.png"],
     [article_filename |-> <<"summer-start-date", ".md">>, category |-> "News", image |-> "summer-start-date.png"],
     [article_filename |-> <<"dubai-concerts-2025", ".md">>, category |-> "Things to Do", image |-> "dubai-concerts-2025.jpg"],
     [article_filename |-> <<"uae-experiences-2025", ".md">>, category |-> "Things to Do", image |-> "uae-experiences-2025.jpg"],
     [article_filename |-> <<"dubai-activities-guide", ".md">>, category |-> "Things to Do", image |-> "dubai-activities-guide.jpg"],
     [article_filename |-> <<"nye-soho-garden", ".md">>, category |-> "Nightlife", image |-> "nye-soho-garden.jpg"],
     [article_filename |-> <<"summer-dining-deals", ".md">>, category |-> "Food & Drink", image |-> "summer-dining-deals.jpg"],
     [article_filename |-> <<"restaurant-week-deals", ".md">>, category |-> "Food & Drink", image |-> "restaurant-week-deals.jpg"],
     [article_filename |-> <<"new-restaurants-guide", ".md">>, category |-> "Food & Drink", image |-> "new-restaurants-guide.jpg"] >>

image_metadata ==
  ("dubai-four-day-workweek.jpg" :> [alt |-> "Dubai public sector employees in a meeting discussing the four-day work week initiative",
      credit |-> "Gulf Business (gulfbusiness.com)"]) @@
  ("four-day-week-explained.png" :> [alt |-> "Graphic showing work-life balance concept with Dubai skyline",
      credit |-> "JobXDubai (blog.jobxdubai.com)"]) @@
  ("june-dubai-changes.jpg" :> [alt |-> "Fireworks display over Dubai during Islamic New Year celebrations",
      credit |-> "Travel Saga Tourism (travelsaga.com)"]) @@
  ("islamic-new-year-weekend.jpg" :> [alt |-> "Sheikh Zayed Grand Mosque illuminated during Islamic New Year",
      credit |-> "Yalla Dubai Life (yalladubai.ae)"]) @@
  ("summer-solstice-guide.jpg" :> [alt |-> "Dubai skyline at sunset during summer season",
      credit |-> "Gulf News (gulfnews.com)"]) @@
  ("june-fuel-prices.jpg" :> [alt |-> "ADNOC fuel station with car refueling",
      credit |-> "Oil & Gas Middle East (www.oilandgasmiddleeast.com)"]) @@
  ("islamic-new-year-holiday.png" :> [alt |-> "UAE Public Holidays calendar for 2025 showing Islamic New Year date",
      credit |-> "The ZenHR Blog (blog.zenhr.com)"]) @@
  ("summer-start-date.png" :> [alt |-> "Dubai weather temperature chart showing summer season temperatures",
      credit |-> "On the Beach (www.onthebeach.ie)"]) @@
  ("dubai-concerts-2025.jpg" :> [alt |-> "Crowd at Coca-Cola Arena Dubai during a concert",
      credit |-> "The National (www.thenationalnews.com)"]) @@
  ("uae-experiences-2025.jpg" :> [alt |-> "Museum of the Future Dubai exterior view",
      credit |-> "Tripadvisor (www.tripadvisor.com)"]) @@
  ("dubai-activities-guide.jpg" :> [alt |-> "Collage of indoor activities and attractions in Dubai",
      credit |-> "Captain Dunes (captaindunes.com)"]) @@
  ("nye-soho-garden.jpg" :> [alt |-> "Soho Garden Dubai nightclub during a New Year's Eve celebration",
      credit |-> "Time Out Dubai (www.timeoutdubai.com)"]) @@
  ("summer-dining-deals.jpg" :> [alt |-> "Prime68 restaurant interior at JW Marriott Marquis Hotel Dubai",
      credit |-> "Marriott (www.marriott.com)"]) @@
  ("restaurant-week-deals.jpg" :> [alt |-> "Dubai Restaurant Week promotional image showing gourmet dishes",
      credit |-> "Curly Tales (curlytales.com)"]) @@
  ("new-restaurants-guide.jpg" :> [alt |-> "Interior of a new luxury restaurant in Dubai with elegant bar area",
      credit |-> "Platinumlist (platinumlist.net)"])

NumArticles == Len(article_files)

ALL_ARTICLES == <<"all_articles", ".json">>

\* ------------------------------------------------------ pure functions
Alphabet == {"#", " ", "a", "\n", "\r", "\t"}

\* Characters str.strip() removes (str.isspace) within the alphabet.
Whitespace == {" ", "\t", "\n", "\r", "\f"}

\* f.read() of a file opened in text mode ('r', newline=None): universal
\* newlines, "\r\n" and a lone "\r" both arrive as "\n".
RECURSIVE read(_)
read(raw) ==
  IF raw = << >> THEN << >>
  ELSE IF raw[1] = "\r"
       THEN IF Len(raw) >= 2 /\ raw[2] = "\n"
            THEN <<"\n">> \o read(SubSeq(raw, 3, Len(raw)))
            ELSE <<"\n">> \o read(Tail(raw))
       ELSE <<raw[1]>> \o read(Tail(raw))

\* s.split(sep)[0]: the text before the first occurrence of sep.
RECURSIVE split0(_, _)
split0(s, sep) ==
  IF s = << >> \/ s[1] = sep THEN << >>
  ELSE <<s[1]>> \o split0(Tail(s), sep)

\* s.lstrip(chars): drops every leading character that is in chars.
RECURSIVE lstrip(_, _)
lstrip(s, chars) ==
  IF s # << >> /\ s[1] \in chars THEN lstrip(Tail(s), chars) ELSE s

RECURSIVE rstrip(_, _)
rstrip(s, chars) ==
  IF s # << >> /\ s[Len(s)] \in chars
  THEN rstrip(SubSeq(s, 1, Len(s) - 1), chars) ELSE s

\* s.strip(): drops leading and trailing whitespace.
strip(s) == rstrip(lstrip(s, Whitespace), Whitespace)

\* content.split('\n')[0].lstrip('# ').strip()
headline(content) == strip(lstrip(split0(content, "\n"), {"#", " "}))

\* markdown.markdown(content): the library's HTML rendering of the text,
\* kept as an uninterpreted term over its argument.
markdown(content) == [html_of |-> content]

\* article_filename.replace('.md', '.json'): every occurrence is replaced
\* (replace_none: a variant that replaces nothing).
replace_none(name, old, new) == name
replace(name, old, new) ==
  [k \in DOMAIN name |-> IF name[k] = old THEN new ELSE name[k]]

output_filename(article_filename) == replace(article_filename, ".md", ".json")

\* datetime.datetime.now().strftime("%Y-%m-%d") for a day of June 2025.
strftime(day) ==
  "2025-06-" \o (IF day < 10 THEN "0" ELSE "") \o ToString(day)

\* The dict literal of lines 166-175, preceded by two faulty variants: one
\* leaves out the "images/" prefix, one swaps alt text and credit.
article_data_no_prefix(hl, html, image_filename, category, date) ==
  [headline |-> hl,
   content |-> html,
   image_path |-> image_filename,
   image_alt |-> image_metadata[image_filename].alt,
   image_credit |-> image_metadata[image_filename].credit,
   category |-> category,
   publish_date |-> date,
   author |-> "TimeOut Dubai"]
article_data_swapped(hl, html, image_filename, category, date) ==
  [headline |-> hl,
   content |-> html,
   image_path |-> "images/" \o image_filename,
   image_alt |-> image_metadata[image_filename].credit,
   image_credit |-> image_metadata[image_filename].alt,
   category |-> category,
   publish_date |-> date,
   author |-> "TimeOut Dubai"]
make_article_data(hl, html, image_filename, category, date) ==
  [headline |-> hl,
   content |-> html,
   image_path |-> "images/" \o image_filename,
   image_alt |-> image_metadata[image_filename].alt,
   image_credit |-> image_metadata[image_filename].credit,
   category |-> category,
   publish_date |-> date,
   author |-> "TimeOut Dubai"]

\* ------------------------------------------------------- file contents
Absent == [kind |-> "absent"]
\* A file that exists: the JSON documents written to it in full, in order,
\* and whether an incomplete piece of JSON text follows them.
File(docs, torn) == [kind |-> "text", docs |-> docs, torn |-> torn]

\* open(path, 'w'): the file is created, or truncated to nothing
\* (open_a: mode 'a', which keeps what the file holds).
open_a(old) == IF old = Absent THEN File(<< >>, FALSE) ELSE old
open_w(old) == File(<< >>, FALSE)

\* json.dump(obj, f, indent=2) followed by the close that flushes it: the
\* JSON document of obj is added to what the file holds.
json_dump(cur, obj) == [cur EXCEPT !.docs = Append(@, obj)]

\* json.dump or the flush raises: nothing, or an incomplete piece of the
\* text, has reached the file.
dump_failed(cur, torn) == [cur EXCEPT !.torn = torn]

\* all_articles.append(article_data) (list_insert_front: insert(0, ...)).
list_insert_front(list, item) == <<item>> \o list
list_append(list, item) == Append(list, item)

\* An exception leaving a `with` block or the loop body is not caught
\* anywhere: the interpreter exits (propagate_swallow: a variant that
\* catches it and goes on).
propagate_swallow(e, next) == next
propagate(e, next) == IF e # "none" THEN "aborted" ELSE next

\* __exit__ of the file object closes it, with or without an exception
\* (close_leak: a variant that leaves it open).
close_leak(open, f) == open
close(open, f) == open \ {f}

\* --------------------------------------------------------------- state
VARIABLES
  articles,      \* articles_dir: article file name -> raw text of the file
  output,        \* output_dir: file name -> contents
  output0,       \* output_dir as it was when the current run started
  run,           \* ordinal of the current execution of the script
  clock,         \* the day the system clock shows
  pc,            \* position of the interpreter in the script
  exc,           \* the exception being raised, "none" when there is none
  i,             \* 1-based position of the for loop in article_files
  current_date,  \* l.146
  all_articles,  \* l.149
  content,       \* l.157
  article_data,  \* l.166
  openFiles,     \* the file objects that are open
  log            \* file-system calls of the current run, in order

vars == <<articles, output, output0, run, clock, pc, exc, i, current_date,
          all_articles, content, article_data, openFiles, log>>

\* Loop variables of line 150-153 at position i (image_filename_jpg: the
\* image name derived from the article's name instead of read from the
\* table).
article_filename == article_files[i].article_filename
image_filename_jpg == article_files[i].article_filename[1] \o ".jpg"
image_filename == article_files[i].image
category == article_files[i].category

ArticleNames == {article_files[k].article_filename : k \in 1..NumArticles}
OutputNames ==
  {output_filename(article_files[k].article_filename) : k \in 1..NumArticles}
    \cup {ALL_ARTICLES}

SrcPath(name) == <<"articles", name>>
OutPath(name) == <<"output", name>>

Unbound == [unbound |-> TRUE]

\* One entry of the log: a call on a file, or the failure of the last call.
Ev(op, path) == [op |-> op, file |-> path]

\* Texts of at most n characters.
TextsUpTo(n) == UNION {[1..k -> Alphabet] : k \in 0..n}

\* Two article bodies for the runs of the whole script.
SampleTexts ==
  { <<"#", " ", "a", "\n", "a">>,
    <<"#", "#", " ", "a", "\r", "\n", "\n", "a", " ">> }

InitRest ==
  /\ output = [n \in OutputNames |-> Absent]
  /\ output0 = output
  /\ run = 1
  /\ clock = 1
  /\ pc = "start"
  /\ exc = "none"
  /\ i = 0
  /\ current_date = ""
  /\ all_articles = << >>
  /\ content = << >>
  /\ article_data = Unbound
  /\ openFiles = {}
  /\ log = << >>

Init ==
  /\ \E t \in SampleTexts : articles = [n \in ArticleNames |-> t]
  /\ InitRest

\* The for statement takes the next item, or the loop is over.
for_next(k) == IF k <= NumArticles THEN "open_src" ELSE "open_all"

\* l.15, 146, 149: mkdir(exist_ok=True) succeeds, the date is formatted,
\* the list is created and the loop takes its first item.
Start ==
  /\ pc = "start"
  /\ \E day \in clock..MaxDay :
       /\ clock' = day
       /\ current_date' = strftime(day)
  /\ all_articles' = << >>
  /\ i' = 1
  /\ pc' = for_next(1)
  /\ UNCHANGED <<articles, output, output0, run, exc, content, article_data,
                 openFiles, log>>

\* l.15: mkdir raises (parent directory missing, no permission).
MkdirFail ==
  /\ pc = "start"
  /\ exc' = "OSError"
  /\ pc' = propagate("OSError", "start")
  /\ log' = Append(log, Ev("fail", OutPath(<< >>)))
  /\ UNCHANGED <<articles, output, output0, run, clock, i, current_date,
                 all_articles, content, article_data, openFiles>>

\* l.156: open(article_path, 'r').
OpenSrc ==
  /\ pc = "open_src"
  /\ \/ /\ openFiles' = openFiles \cup {SrcPath(article_filename)}
        /\ log' = Append(log, Ev("open", SrcPath(article_filename)))
        /\ pc' = "read_src"
        /\ exc' = exc
     \/ /\ exc' = "FileNotFoundError"
        /\ log' = Append(log, Ev("open", SrcPath(article_filename)))
                    \o <<Ev("fail", SrcPath(article_filename))>>
        /\ pc' = propagate("FileNotFoundError", "read_src")
        /\ openFiles' = openFiles
  /\ UNCHANGED <<articles, output, output0, run, clock, i, current_date,
                 all_articles, content, article_data>>

\* l.157: content = f.read(), or the read raises.
ReadSrc ==
  /\ pc = "read_src"
  /\ \/ /\ content' = read(articles[article_filename])
        /\ log' = Append(log, Ev("read", SrcPath(article_filename)))
        /\ exc' = exc
     \/ /\ exc' = "OSError"
        /\ log' = Append(log, Ev("read", SrcPath(article_filename)))
                    \o <<Ev("fail", SrcPath(article_filename))>>
        /\ content' = content
  /\ pc' = "exit_src"
  /\ UNCHANGED <<articles, output, output0, run, clock, i, current_date,
                 all_articles, article_data, openFiles>>

\* l.156-157: the with block is left and the file closed.
ExitSrc ==
  /\ pc = "exit_src"
  /\ openFiles' = close(openFiles, SrcPath(article_filename))
  /\ log' = Append(log, Ev("close", SrcPath(article_filename)))
  /\ pc' = propagate(exc, "build")
  /\ UNCHANGED <<articles, output, output0, run, clock, exc, i, current_date,
                 all_articles, content, article_data>>

\* l.160-175: headline, HTML and the record; the metadata lookup raises
\* KeyError for an image that image_metadata does not hold.
Build ==
  /\ pc = "build"
  /\ IF image_filename \in DOMAIN image_metadata
     THEN /\ article_data' = make_article_data(headline(content),
                               markdown(content), image_filename, category,
                               current_date)
          /\ pc' = "open_out"
          /\ UNCHANGED <<exc, log>>
     ELSE /\ exc' = "KeyError"
          /\ pc' = propagate("KeyError", "open_out")
          /\ log' = Append(log, Ev("fail", <<"image_metadata", <<image_filename>>>>))
          /\ UNCHANGED article_data
  /\ UNCHANGED <<articles, output, output0, run, clock, i, current_date,
                 all_articles, content, openFiles>>

\* l.178-179: open(output_dir / output_filename, 'w') creates or truncates
\* the file, or raises and leaves it alone.
OpenOut ==
  /\ pc = "open_out"
  /\ LET name == output_filename(article_filename) IN
     \/ /\ output' = [output EXCEPT ![name] = open_w(@)]
        /\ openFiles' = openFiles \cup {OutPath(name)}
        /\ log' = Append(log, Ev("open", OutPath(name)))
        /\ pc' = "dump_out"
        /\ exc' = exc
     \/ /\ exc' = "OSError"
        /\ log' = Append(log, Ev("open", OutPath(name)))
                    \o <<Ev("fail", OutPath(name))>>
        /\ pc' = propagate("OSError", "dump_out")
        /\ UNCHANGED <<output, openFiles>>
  /\ UNCHANGED <<articles, output0, run, clock, i, current_date,
                 all_articles, content, article_data>>

\* l.180: json.dump(article_data, f, indent=2), or a write raises and the
\* file is left with part of the text.
DumpOut ==
  /\ pc = "dump_out"
  /\ LET name == output_filename(article_filename) IN
     \/ /\ output' = [output EXCEPT ![name] = json_dump(@, article_data)]
        /\ log' = Append(log, Ev("write", OutPath(name)))
        /\ exc' = exc
     \/ /\ exc' = "OSError"
        /\ log' = Append(log, Ev("write", OutPath(name)))
                    \o <<Ev("fail", OutPath(name))>>
        /\ \E torn \in BOOLEAN :
             output' = [output EXCEPT ![name] = dump_failed(@, torn)]
  /\ pc' = "exit_out"
  /\ UNCHANGED <<articles, output0, run, clock, i, current_date,
                 all_articles, content, article_data, openFiles>>

\* l.179-180: the with block is left and the file closed.
ExitOut ==
  /\ pc = "exit_out"
  /\ LET name == output_filename(article_filename) IN
     /\ openFiles' = close(openFiles, OutPath(name))
     /\ log' = Append(log, Ev("close", OutPath(name)))
  /\ pc' = propagate(exc, "append")
  /\ UNCHANGED <<articles, output, output0, run, clock, exc, i, current_date,
                 all_articles, content, article_data>>

\* l.183 and back to l.150: the record joins the list, the loop goes on.
AppendArticle ==
  /\ pc = "append"
  /\ all_articles' = list_append(all_articles, article_data)
  /\ i' = i + 1
  /\ pc' = for_next(i + 1)
  /\ UNCHANGED <<articles, output, output0, run, clock, exc, current_date,
                 content, article_data, openFiles, log>>

\* l.186: open(output_dir / "all_articles.json", 'w').
OpenAll ==
  /\ pc = "open_all"
  /\ \/ /\ output' = [output EXCEPT ![ALL_ARTICLES] = open_w(@)]
        /\ openFiles' = openFiles \cup {OutPath(ALL_ARTICLES)}
        /\ log' = Append(log, Ev("open", OutPath(ALL_ARTICLES)))
        /\ pc' = "dump_all"
        /\ exc' = exc
     \/ /\ exc' = "OSError"
        /\ log' = Append(log, Ev("open", OutPath(ALL_ARTICLES)))
                    \o <<Ev("fail", OutPath(ALL_ARTICLES))>>
        /\ pc' = propagate("OSError", "dump_all")
        /\ UNCHANGED <<output, openFiles>>
  /\ UNCHANGED <<articles, output0, run, clock, i, current_date,
                 all_articles, content, article_data>>

\* l.187: json.dump({"articles": all_articles}, f, indent=2).
DumpAll ==
  /\ pc = "dump_all"
  /\ \/ /\ output' = [output EXCEPT
             ![ALL_ARTICLES] = json_dump(@, [articles |-> all_articles])]
        /\ log' = Append(log, Ev("write", OutPath(ALL_ARTICLES)))
        /\ exc' = exc
     \/ /\ exc' = "OSError"
        /\ log' = Append(log, Ev("write", OutPath(ALL_ARTICLES)))
                    \o <<Ev("fail", OutPath(ALL_ARTICLES))>>
        /\ \E torn \in BOOLEAN :
             output' = [output EXCEPT ![ALL_ARTICLES] = dump_failed(@, torn)]
  /\ pc' = "exit_all"
  /\ UNCHANGED <<articles, output0, run, clock, i, current_date,
                 all_articles, content, article_data, openFiles>>

\* l.186-189: the with block is left, the summary printed, the script ends.
ExitAll ==
  /\ pc = "exit_all"
  /\ openFiles' = close(openFiles, OutPath(ALL_ARTICLES))
  /\ log' = Append(log, Ev("close", OutPath(ALL_ARTICLES)))
  /\ pc' = propagate(exc, "done")
  /\ UNCHANGED <<articles, output, output0, run, clock, exc, i, current_date,
                 all_articles, content, article_data>>

\* The script is executed again after a run that completed; the source
\* files are the same and the output directory is what the run left.
Rerun ==
  /\ pc = "done"
  /\ run < MaxRuns
  /\ run' = run + 1
  /\ output0' = output
  /\ pc' = "start"
  /\ i' = 0
  /\ current_date' = ""
  /\ all_articles' = << >>
  /\ content' = << >>
  /\ article_data' = Unbound
  /\ log' = << >>
  /\ UNCHANGED <<articles, output, clock, exc, openFiles>>

Step ==
  \/ Start \/ MkdirFail
  \/ OpenSrc \/ ReadSrc \/ ExitSrc
  \/ Build
  \/ OpenOut \/ DumpOut \/ ExitOut
  \/ AppendArticle
  \/ OpenAll \/ DumpAll \/ ExitAll

Next == Step \/ Rerun

Spec == Init /\ [][Next]_vars

\* The interpreter executes the script's next statement as long as there
\* is one.
FairSpec == Spec /\ WF_vars(Step)

\* ---------------------------------------- headline extraction alone
\* The first article's source file holds any text of at most MaxLen
\* characters; the script runs up to the record of the first article.
InitHeadline ==
  /\ \E t \in TextsUpTo(MaxLen) :
       articles = [n \in ArticleNames |->
                     IF n = article_files[1].article_filename
                     THEN t ELSE <<"#", " ", "a">>]
  /\ InitRest

NextHeadline ==
  \/ Start
  \/ i = 1 /\ OpenSrc
  \/ i = 1 /\ ReadSrc
  \/ i = 1 /\ ExitSrc
  \/ i = 1 /\ Build

SpecHeadline == InitHeadline /\ [][NextHeadline]_vars

\* ============================================================ properties
OutName(k) == output_filename(article_files[k].article_filename)
IsJson(c) == c.kind = "text" /\ Len(c.docs) = 1 /\ ~c.torn
Finished == pc \in {"done", "aborted"}

\* The first line of a text: what precedes its first line terminator.
FirstLine(raw) ==
  LET ends == {k \in 1..Len(raw) : raw[k] \in {"\n", "\r"}} IN
  IF ends = {} THEN raw
  ELSE SubSeq(raw, 1, (CHOOSE k \in ends : \A m \in ends : k <= m) - 1)

\* The headline as specified: leading '#' characters removed from the
\* first line, then the surrounding whitespace.
SpecifiedHeadline(raw) == strip(lstrip(FirstLine(raw), {"#"}))

\* C1: the headline of the record is the first line of the source file
\* with its leading '#' characters and then its surrounding whitespace
\* removed, and nothing else removed.
C1_HeadlineIsFirstLineWithoutHashes ==
  (pc = "open_out" /\ i = 1) =>
    article_data.headline = SpecifiedHeadline(articles[article_filename])

\* C2: after a run that completes, all_articles.json holds one document
\* whose "articles" array has one element per configured article, as many
\* as per-article files were written, the k-th equal to the record in the
\* per-article file of the k-th entry of article_files.
C2_AggregateMatchesArticleFiles ==
  pc = "done" =>
    /\ IsJson(output[ALL_ARTICLES])
    /\ LET arr == output[ALL_ARTICLES].docs[1].articles IN
       /\ Len(arr) = NumArticles
       /\ Len(arr) = Cardinality({p \in 1..Len(log) :
                        /\ log[p].op = "write"
                        /\ log[p].file # OutPath(ALL_ARTICLES)})
       /\ \A k \in 1..NumArticles :
            /\ IsJson(output[OutName(k)])
            /\ arr[k] = output[OutName(k)].docs[1]

C2_Witness ==
  /\ pc = "done"
  /\ run = 2
  /\ Len(output[ALL_ARTICLES].docs[1].articles) = NumArticles

\* Positions of the log where a call failed.
Failures == {p \in 1..Len(log) : log[p].op = "fail"}
\* File names of the articles up to position k of article_files.
PathsUpTo(k) ==
  {SrcPath(article_files[j].article_filename) : j \in 1..k}
    \cup {OutPath(OutName(j)) : j \in 1..k}

\* C3: a failure aborts the run: once a call has failed nothing runs but
\* the close of the file that was open, the failed call is not made again,
\* no later article is read or written, and all_articles.json is neither
\* opened nor changed.
C3_FailureAbortsRun ==
  exc # "none" =>
    /\ pc \in {"exit_src", "exit_out", "exit_all", "aborted"}
    /\ Cardinality(Failures) = 1
    /\ \A p \in Failures :
         /\ \A q \in (p + 1)..Len(log) :
              /\ q = p + 1
              /\ log[q] = Ev("close", log[p].file)
         /\ p > 1 =>
              /\ log[p - 1].file = log[p].file
              /\ \A q \in 1..(p - 2) : log[q] # log[p - 1]
    /\ (i \in 1..NumArticles) =>
         /\ \A p \in 1..Len(log) :
              log[p].op = "fail" \/ log[p].file \in PathsUpTo(i)
         /\ output[ALL_ARTICLES] = output0[ALL_ARTICLES]
    /\ pc = "aborted" => ~ENABLED Next

C3_Witness ==
  /\ pc = "aborted"
  /\ i \in 2..(NumArticles - 1)
  /\ exc = "FileNotFoundError"
  /\ IsJson(output[OutName(i - 1)])
  /\ output[OutName(i + 1)] = Absent

FieldsAsSpecified ==
  {"headline", "content", "imagePath", "imageAlt", "imageCredit",
   "category", "publishDate", "author"}
FieldsAsWritten ==
  {"headline", "content", "image_path", "image_alt", "image_credit",
   "category", "publish_date", "author"}

C5_ImageMetadataOfOwnImage ==
  \A k \in 1..NumArticles :
    IsJson(output[OutName(k)]) =>
      LET r == output[OutName(k)].docs[1] IN
      /\ r.image_alt = image_metadata[article_files[k].image].alt
      /\ r.image_credit = image_metadata[article_files[k].image].credit
      /\ \A j \in 1..NumArticles : j # k =>
           /\ r.image_alt # image_metadata[article_files[j].image].alt
           /\ r.image_credit # image_metadata[article_files[j].image].credit

C5_Witness ==
  /\ pc = "append"
  /\ i = 2
  /\ output[OutName(2)].docs[1].image_credit = "JobXDubai (blog.jobxdubai.com)"

\* C6: every image that article_files names is a key of image_metadata,
\* so the lookup of lines 170-171 never raises KeyError.
C6_EveryImageHasMetadata ==
  /\ \A k \in 1..NumArticles : article_files[k].image \in DOMAIN image_metadata
  /\ exc # "KeyError"
  /\ \A p \in 1..Len(log) : log[p].file[1] # "image_metadata"

C6_Witness ==
  /\ pc = "open_out"
  /\ i = NumArticles
  /\ article_data.image_path = "images/new-restaurants-guide.jpg"

\* A per-article file, and the aggregate file, without the publish dates.
NoDate(r) == [r EXCEPT !.publish_date = ""]
ArticleFileNoDate(c) ==
  IF c.kind = "text"
  THEN [c EXCEPT !.docs = [k \in DOMAIN c.docs |-> NoDate(c.docs[k])]]
  ELSE c
AggregateNoDate(c) ==
  IF c.kind = "text"
  THEN [c EXCEPT !.docs = [k \in DOMAIN c.docs |->
          [articles |-> [m \in DOMAIN c.docs[k].articles |->
                           NoDate(c.docs[k].articles[m])]]]]
  ELSE c

\* C7: when the script has run to completion a second time on the same
\* source files, every output file is what the previous run left except
\* for the publish dates: each file holds one document, and the aggregate
\* has as many elements as before.
C7_SecondRunIdempotent ==
  (pc = "done" /\ run >= 2) =>
    /\ \A k \in 1..NumArticles :
         /\ IsJson(output[OutName(k)])
         /\ ArticleFileNoDate(output[OutName(k)])
              = ArticleFileNoDate(output0[OutName(k)])
    /\ IsJson(output[ALL_ARTICLES])
    /\ AggregateNoDate(output[ALL_ARTICLES])
         = AggregateNoDate(output0[ALL_ARTICLES])
    /\ Len(output[ALL_ARTICLES].docs[1].articles)
         = Len(output0[ALL_ARTICLES].docs[1].articles)

C7_Witness ==
  /\ pc = "done"
  /\ run = 2
  /\ output[OutName(1)].docs[1].publish_date = "2025-06-02"
  /\ output0[OutName(1)].docs[1].publish_date = "2025-06-01"

IsWrite(e) == e.op = "write"
IsRead(e) == e.op = "read"
IsOpen(e) == e.op = "open"

\* What a completed run has done and left.
CompletedRun ==
  pc = "done" =>
    /\ SelectSeq(log, IsRead) =
         [k \in 1..NumArticles |->
            Ev("read", SrcPath(article_files[k].article_filename))]
    /\ SelectSeq(log, IsWrite) =
         [k \in 1..(NumArticles + 1) |->
            Ev("write", OutPath(IF k <= NumArticles THEN OutName(k)
                                ELSE ALL_ARTICLES))]
    /\ \A k \in 1..NumArticles :
         /\ IsJson(output[OutName(k)])
         /\ OutName(k) = <<article_files[k].article_filename[1], ".json">>
         /\ OutName(k) # ALL_ARTICLES
         /\ \A j \in 1..NumArticles : j # k => OutName(j) # OutName(k)
    /\ IsJson(output[ALL_ARTICLES])
    /\ {n \in DOMAIN output : output[n] # Absent} = OutputNames
    /\ Cardinality(OutputNames) = NumArticles + 1

\* C8: a run ends; one in which no call fails ends having read every
\* article once and written one JSON file per article, named as the source
\* with ".md" swapped to ".json", and then all_articles.json; the file
\* names are pairwise distinct and none is all_articles.json.
C8_RunTerminatesWithAllFiles ==
  /\ []CompletedRun
  /\ (pc = "start") ~> Finished

C8_Witness ==
  /\ pc = "done"
  /\ run = 1
  /\ Len(log) = 6 * NumArticles + 3
  /\ log[Len(log) - 1] = Ev("write", OutPath(ALL_ARTICLES))

\* The p-th file the script opens.
ExpectedOpen(p) ==
  IF p = 2 * NumArticles + 1 THEN OutPath(ALL_ARTICLES)
  ELSE IF p % 2 = 1
       THEN SrcPath(article_files[(p + 1) \div 2].article_filename)
       ELSE OutPath(OutName(p \div 2))

\* C9: at most one file is open at any time; files are opened in the order
\* source 1, output 1, source 2, output 2, ..., all_articles.json, each
\* closed before the next is opened, and a file is closed too when the
\* read or write inside its block fails.
C9_OneFileOpenAtATime ==
  /\ Cardinality(openFiles) <= 1
  /\ openFiles =
       IF pc \in {"read_src", "exit_src"} THEN {SrcPath(article_filename)}
       ELSE IF pc \in {"dump_out", "exit_out"}
            THEN {OutPath(OutName(i))}
       ELSE IF pc \in {"dump_all", "exit_all"} THEN {OutPath(ALL_ARTICLES)}
       ELSE {}
  /\ LET opens == SelectSeq(log, IsOpen) IN
     /\ Len(opens) <= 2 * NumArticles + 1
     /\ \A p \in 1..Len(opens) : opens[p].file = ExpectedOpen(p)
  /\ \A p \in 1..Len(log) :
       (log[p].op = "open" /\ ~(p < Len(log) /\ log[p + 1].op = "fail")) =>
         \A q \in (p + 1)..Len(log) :
           log[q].file # log[p].file =>
             \E c \in (p + 1)..(q - 1) : log[c] = Ev("close", log[p].file)

C9_Witness ==
  /\ pc = "aborted"
  /\ i = 3
  /\ exc = "OSError"
  /\ openFiles = {}
  /\ Len(log) >= 2
  /\ log[Len(log) - 1] = Ev("fail", OutPath(OutName(3)))
  /\ log[Len(log)] = Ev("close", OutPath(OutName(3)))

AbortedInArticle == pc = "aborted" /\ i \in 1..NumArticles
\* The files of the articles before the one that failed hold this run's
\* records, and all_articles.json is what it was before the run.
EarlierWrittenAggregateKept ==
  /\ Len(all_articles) = i - 1
  /\ \A j \in 1..(i - 1) :
       /\ output[OutName(j)] = File(<<all_articles[j]>>, FALSE)
       /\ all_articles[j].publish_date = current_date
  /\ output[ALL_ARTICLES] = output0[ALL_ARTICLES]

\* C10 as stated: after an abort in the k-th article the files of the
\* articles before it hold this run's records, and all_articles.json and
\* the files of the k-th and later articles are as before the run.
C10_FailedArticleFileUntouched ==
  AbortedInArticle =>
    /\ EarlierWrittenAggregateKept
    /\ \A j \in i..NumArticles : output[OutName(j)] = output0[OutName(j)]

\* C10 amended: ... the files of the later articles are as before the run,
\* and so is the file of the k-th article unless the failure came after
\* that file was opened for writing: then it is left empty or with an
\* incomplete JSON text.
C10_FailedArticleFileUntouchedOrTorn ==
  AbortedInArticle =>
    /\ EarlierWrittenAggregateKept
    /\ \A j \in (i + 1)..NumArticles : output[OutName(j)] = output0[OutName(j)]
    /\ IF \E p \in 1..Len(log) : log[p] = Ev("write", OutPath(OutName(i)))
       THEN output[OutName(i)] \in {File(<< >>, FALSE), File(<< >>, TRUE)}
       ELSE output[OutName(i)] = output0[OutName(i)]

C10_Witness ==
  /\ AbortedInArticle
  /\ run = 2
  /\ i = 3
  /\ output[OutName(3)] = File(<< >>, TRUE)
  /\ IsJson(output0[OutName(3)])
  /\ IsJson(output[ALL_ARTICLES])
  /\ output[ALL_ARTICLES].docs[1].articles[1] # output[OutName(1)].docs[1]
====
